---- MODULE Spec2Model ----
(***************************************************************************)
(* Model of the simulated-annealing Sudoku solver: the Board class of      *)
(* sudoku.py and the cost model, move selector and annealing loop of       *)
(* sudoku_solver.py.                                                       *)
(*                                                                         *)
(* Coordinates are <<row, col>> with row, col in 0..8 as in the source.    *)
(* A grid is, as in the source, a list of 9 rows of 9 values; the cell at  *)
(* (row, col) is g[row + 1][col + 1], sequences being indexed from 1.      *)
(* Groups (rows, columns, boxes) are sequences of 9 values.                *)
(* The temperature is kept symbolically: the variable T holds the number   *)
(* k of coolings since the last reheat, i.e. the float T of the source is  *)
(* T_initial * decay^k.  The Metropolis draw of line 130 is a              *)
(* nondeterministic choice whenever delta_cost > 0.                        *)
(***************************************************************************)
EXTENDS Integers, Sequences, FiniteSets, TLC

VARIABLES
    initial_grid,        \* the grid handed to Board.__init__ (history)
    grid,                \* Board.grid
    fixed_cells,         \* Board.fixed_cells
    ops,                 \* number of direct calls made on the board being prepared
    last_call,           \* the most recent call made from outside: its name and coordinates
    pc,                  \* position of the solver call
    exception,           \* the exception the solver call raised, "none" otherwise
    max_iterations,      \* solver parameter
    max_stagnation,      \* solver parameter
    entry_grid,          \* the grid as passed to solver (history)
    filled_grid,         \* the grid as initialise_board left it inside solver (history)
    current_cost, min_cost, iterations, stagnation_counter, T,
    coord1, coord2,      \* the pair returned by select_coordinates
    result,              \* the value solver returned
    history,             \* what the iterations so far did (history, see HistoryAfter)
    copy_made,           \* TRUE once copy_board has been called
    copy_ops,            \* number of calls made on the copy
    copy_grid,           \* grid of the Board returned by copy_board
    copy_fixed,          \* fixed_cells of the Board returned by copy_board
    group_values,        \* the argument of a call of group_cost on its own
    group_total          \* the value that call returned, NoTotal before it

boardVars  == <<initial_grid, grid, fixed_cells>>
solverVars == <<pc, exception, max_iterations, max_stagnation, entry_grid,
                filled_grid, current_cost, min_cost, iterations,
                stagnation_counter, T, coord1, coord2, result, history>>
copyVars   == <<copy_made, copy_ops, copy_grid, copy_fixed>>
groupVars  == <<group_values, group_total>>
vars       == <<initial_grid, grid, fixed_cells, ops, last_call, pc,
                exception, max_iterations, max_stagnation, entry_grid, filled_grid,
                current_cost, min_cost, iterations, stagnation_counter, T,
                coord1, coord2, result, history, copy_made, copy_ops,
                copy_grid, copy_fixed, group_values, group_total>>

----------------------------------------------------------------------------
(* Bounds of the model *)

MaxPatterns   == 4    \* puzzles use the first MaxPatterns patterns of BlankPatterns
MaxOps        == 1    \* direct Board / swap_values calls per behaviour
MaxIterations == 2    \* max_iterations ranges over 0..MaxIterations
MaxStagnation == 2    \* max_stagnation ranges over 1..MaxStagnation
MaxGroupEdits == 2    \* cells of a group given to group_cost that take any value
MaxCopyOps    == 1    \* calls made on the Board returned by copy_board

----------------------------------------------------------------------------
(* Program constants *)

N       == 9          \* side of the grid
BoxSize == 3          \* side of a box

Index  == 0 .. (N - 1)
Coords == Index \X Index
Digits == 1 .. N
NoCoord == <<N, N>>   \* "no coordinate selected yet"

----------------------------------------------------------------------------
(* Generic helpers *)

Range(s) == {s[i] : i \in DOMAIN s}

RECURSIVE SumSeq(_)
SumSeq(s) == IF s = <<>> THEN 0 ELSE Head(s) + SumSeq(Tail(s))

RECURSIVE SumOver(_, _)
SumOver(f, S) ==
    IF S = {} THEN 0
    ELSE LET x == CHOOSE y \in S : TRUE
         IN  f[x] + SumOver(f, S \ {x})

SumFun(f) == SumOver(f, DOMAIN f)

Count(group, value) == Cardinality({i \in DOMAIN group : group[i] = value})

----------------------------------------------------------------------------
(* sudoku.py *)

get_box_coordinates ==
    [b \in 1 .. N |->
        [k \in 1 .. N |->
            << BoxSize * ((b - 1) \div BoxSize) + ((k - 1) \div BoxSize),
               BoxSize * ((b - 1) % BoxSize) + ((k - 1) % BoxSize) >>]]

(* Board.__init__: the mask is bool(cell) of the grid passed in *)
MaskOf(g) == [r \in 1 .. N |-> [c \in 1 .. N |-> g[r][c] # 0]]

get_value(g, row, col) == g[row + 1][col + 1]

get_rows(g)    == g
get_columns(g) == [c \in 1 .. N |-> [r \in 1 .. N |-> g[r][c]]]
get_boxes(g)   ==
    [b \in 1 .. N |->
        [k \in 1 .. N |->
            get_value(g, get_box_coordinates[b][k][1], get_box_coordinates[b][k][2])]]

is_cell_fixed(f, row, col) == f[row + 1][col + 1]

is_valid_group(group) ==
    LET elements == SelectSeq(group, LAMBDA num : num # 0)
    IN  Len(elements) = Cardinality(Range(elements))

is_valid(g) ==
    \A group \in Range(get_rows(g) \o get_columns(g) \o get_boxes(g)) :
        is_valid_group(group)

(* set_value without the test of the mask *)
set_value_unguarded(g, f, row, col, value) ==
    [g EXCEPT ![row + 1][col + 1] = value]

set_value(g, f, row, col, value) ==
    IF ~f[row + 1][col + 1] THEN [g EXCEPT ![row + 1][col + 1] = value] ELSE g

get_modifiable_coordinates(f) == {c \in Coords : ~f[c[1] + 1][c[2] + 1]}

reset(g, f) ==
    [r \in 1 .. N |->
        [c \in 1 .. N |->
            IF <<r - 1, c - 1>> \in get_modifiable_coordinates(f) THEN 0
            ELSE g[r][c]]]

----------------------------------------------------------------------------
(* sudoku_solver.py: cost model *)

(* group_cost charging a zero like a digit: count - 1 for every value *)
group_cost_zero_as_digit(group) ==
    LET counts == [num \in Range(group) |-> Count(group, num)]
    IN  SumFun([num \in DOMAIN counts |-> counts[num] - 1])

group_cost(group) ==
    LET counts == [num \in Range(group) |-> Count(group, num)]
    IN  SumFun([num \in DOMAIN counts |->
                  IF num # 0 THEN counts[num] - 1 ELSE counts[num]])

cost_function(g) ==
    SumSeq([i \in 1 .. N |-> group_cost(get_rows(g)[i])])
    + SumSeq([i \in 1 .. N |-> group_cost(get_columns(g)[i])])
    + SumSeq([i \in 1 .. N |-> group_cost(get_boxes(g)[i])])

BoxOf(row, col) ==
    CHOOSE b \in 1 .. N : <<row, col>> \in Range(get_box_coordinates[b])

coordinate_cost(g, row, col) ==
    LET value     == get_value(g, row, col)
        row_group == get_rows(g)[row + 1]
        col_group == get_columns(g)[col + 1]
        box_group == get_boxes(g)[BoxOf(row, col)]
    IN  IF value = 0 THEN 1
        ELSE (Count(row_group, value) - 1)
             + (Count(col_group, value) - 1)
             + (Count(box_group, value) - 1)

(* swap_values reading the second value after the first write (no val2   *)
(* kept aside): both cells end with the value c2 held                     *)
swap_values_second_read_late(g, f, c1, c2) ==
    LET val2 == get_value(g, c2[1], c2[2])
        g1   == set_value(g, f, c1[1], c1[2], val2)
        val1 == get_value(g1, c1[1], c1[2])
    IN  set_value(g1, f, c2[1], c2[2], val1)

swap_values(g, f, c1, c2) ==
    LET val1 == get_value(g, c1[1], c1[2])
        val2 == get_value(g, c2[1], c2[2])
        g1   == set_value(g, f, c1[1], c1[2], val2)
    IN  set_value(g1, f, c2[1], c2[2], val1)

----------------------------------------------------------------------------
(* sudoku_solver.py: initialise_board.  The rows are visited in order; for *)
(* each row the missing numbers are computed once, then the cells of the   *)
(* row are visited in order and every cell holding 0 is handed, through    *)
(* set_value, a number popped from the set.  set.pop() removes an          *)
(* arbitrary element, so the result is the set of grids the call can leave *)
(* behind; popping from an empty set (KeyError) leaves no grid at all.     *)

missing_numbers(g, row) == Digits \ Range(get_rows(g)[row + 1])

RECURSIVE FillCells(_, _, _, _, _)
FillCells(g, f, row, col, missing) ==
    IF col = N
    THEN IF row + 1 = N THEN {g}
         ELSE FillCells(g, f, row + 1, 0, missing_numbers(g, row + 1))
    ELSE IF get_value(g, row, col) = 0
    THEN UNION {FillCells(set_value(g, f, row, col, number), f, row, col + 1,
                          missing \ {number}) : number \in missing}
    ELSE FillCells(g, f, row, col + 1, missing)

initialise_board(g, f) == FillCells(g, f, 0, 0, missing_numbers(g, 0))

----------------------------------------------------------------------------
(* Inputs.  Puzzles are derived from one solved grid by blanking the cells *)
(* of one of the first MaxPatterns patterns of BlankPatterns and,          *)
(* optionally, overwriting one clue so that the clues themselves conflict. *)

Solved ==
    [r \in 1 .. N |->
        [c \in 1 .. N |->
            ((BoxSize * ((r - 1) % BoxSize) + ((r - 1) \div BoxSize) + (c - 1)) % N) + 1]]

BlankPatterns ==
    << {},                                   \* a complete grid
       { <<0, 0>> },                         \* one modifiable cell
       { <<2, 2>>, <<2, 3>> },               \* two modifiable cells in one row
       { <<0, 0>>, <<2, 2>> },               \* two rows with one modifiable cell each
       { <<0, 0>>, <<2, 2>>, <<2, 3>> },
       { <<0, 0>>, <<0, 1>>, <<2, 2>>, <<2, 3>> } >>

Blanks(k) == BlankPatterns[k]

NoOverride == <<NoCoord, 0>>

ClueOverrides ==
    { NoOverride,
      << <<1, 0>>, 1 >>,     \* repeats the digit of (0,0) in its column and box
      << <<5, 5>>, 5 >>,     \* a conflict among clues far from every blank
      << <<2, 4>>, 7 >>,     \* a digit repeated inside row 2
      << <<2, 0>>, 9 >> }    \* a column conflict that leaves every row of clues
                             \* free of repeats while (2,2) is blank

Puzzle(k, o) ==
    [r \in 1 .. N |->
        [c \in 1 .. N |->
            IF <<r - 1, c - 1>> \in Blanks(k) THEN 0
            ELSE IF <<r - 1, c - 1>> = o[1] THEN o[2]
            ELSE Solved[r][c]]]

Puzzles ==
    {Puzzle(k, o) : k \in {i \in DOMAIN BlankPatterns : i <= MaxPatterns},
                    o \in ClueOverrides}

(* Arguments for group_cost called on its own: a row holding 1..9 once    *)
(* each, or nine zeros, with its first MaxGroupEdits cells overwritten by  *)
(* any values of 0..9.                                                     *)
GroupBases == { [i \in 1 .. N |-> i], [i \in 1 .. N |-> 0] }

Groups ==
    { [i \in 1 .. N |-> IF i <= MaxGroupEdits THEN e[i] ELSE base[i]] :
        base \in GroupBases, e \in [1 .. MaxGroupEdits -> 0 .. N] }

NoGroup == <<>>
NoTotal == -1

OpCoords == { <<0, 0>>, <<0, 1>> }
OpValues == { 0, 2 }

----------------------------------------------------------------------------
(* State machine *)

Min(a, b) == IF a <= b THEN a ELSE b

(* What a run of the loop has done so far, recorded beside the solver's    *)
(* own variables:                                                          *)
(*   accepted     whether the last iteration accepted its move (line 130)  *)
(*   new_cost     the cost the last iteration computed at line 126         *)
(*   last_reheat  the value of iterations after the last iteration that    *)
(*                took the reheat branch of line 143, 0 before any         *)
(*   lowest_cost  the lowest value current_cost has had since line 109     *)
(*   lowest_stale the number of iterations since current_cost last went    *)
(*                below lowest_cost                                        *)
(*   epoch_low    the lowest value current_cost has had since the last     *)
(*                reheat, the cost at that reheat included                 *)
(*   epoch_stale  the number of iterations since current_cost last went    *)
(*                below epoch_low or a reheat last happened                *)
HistoryAtCall(cost) ==
    [accepted |-> FALSE, new_cost |-> cost, last_reheat |-> 0,
     lowest_cost |-> cost, lowest_stale |-> 0,
     epoch_low |-> cost, epoch_stale |-> 0]

HistoryAfter(h, accept, new_cost, cost, reheat, iters) ==
    [accepted    |-> accept,
     new_cost    |-> new_cost,
     last_reheat |-> IF reheat THEN iters ELSE h.last_reheat,
     lowest_cost |-> Min(h.lowest_cost, cost),
     lowest_stale |-> IF cost < h.lowest_cost THEN 0 ELSE h.lowest_stale + 1,
     epoch_low   |-> IF reheat THEN cost ELSE Min(h.epoch_low, cost),
     epoch_stale |-> IF reheat \/ cost < h.epoch_low THEN 0 ELSE h.epoch_stale + 1]

Call(name, c1, c2) == [name |-> name, c1 |-> c1, c2 |-> c2]

(* every variable but initial_grid and group_values *)
InitRest ==
    /\ grid = initial_grid
    /\ fixed_cells = MaskOf(initial_grid)
    /\ ops = 0
    /\ last_call = Call("none", NoCoord, NoCoord)
    /\ pc = "idle"
    /\ exception = "none"
    /\ max_iterations = 0
    /\ max_stagnation = 1
    /\ entry_grid = initial_grid
    /\ filled_grid = initial_grid
    /\ current_cost = 0
    /\ min_cost = 0
    /\ iterations = 0
    /\ stagnation_counter = 0
    /\ T = 0
    /\ coord1 = NoCoord
    /\ coord2 = NoCoord
    /\ result = FALSE
    /\ history = HistoryAtCall(0)
    /\ copy_made = FALSE
    /\ copy_ops = 0
    /\ copy_grid = initial_grid
    /\ copy_fixed = MaskOf(initial_grid)
    /\ group_total = NoTotal

Init ==
    /\ initial_grid \in Puzzles
    /\ group_values = NoGroup
    /\ InitRest

(* Direct calls prepare the board; the solver can be called after any of   *)
(* them.                                                                   *)
CanCall == pc = "idle" /\ ops < MaxOps

SetValue(row, col, value) ==
    /\ CanCall
    /\ grid' = set_value(grid, fixed_cells, row, col, value)
    /\ ops' = ops + 1
    /\ last_call' = Call("set_value", <<row, col>>, NoCoord)
    /\ UNCHANGED <<initial_grid, fixed_cells, solverVars, copyVars, groupVars>>

Reset ==
    /\ CanCall
    /\ grid' = reset(grid, fixed_cells)
    /\ ops' = ops + 1
    /\ last_call' = Call("reset", NoCoord, NoCoord)
    /\ UNCHANGED <<initial_grid, fixed_cells, solverVars, copyVars, groupVars>>

SwapValues(c1, c2) ==
    /\ CanCall
    /\ grid' = swap_values(grid, fixed_cells, c1, c2)
    /\ ops' = ops + 1
    /\ last_call' = Call("swap_values", c1, c2)
    /\ UNCHANGED <<initial_grid, fixed_cells, solverVars, copyVars, groupVars>>

InitialiseBoard ==
    /\ CanCall
    /\ grid' \in initialise_board(grid, fixed_cells)
    /\ ops' = ops + 1
    /\ last_call' = Call("initialise_board", NoCoord, NoCoord)
    /\ UNCHANGED <<initial_grid, fixed_cells, solverVars, copyVars, groupVars>>

----------------------------------------------------------------------------
(* solver *)

(* lines 108-114 *)
SolverCall(mi, ms) ==
    /\ pc = "idle"
    /\ \E g \in initialise_board(grid, fixed_cells) :
          \E cost \in {cost_function(g)} :
             /\ grid' = g
             /\ filled_grid' = g
             /\ current_cost' = cost
             /\ min_cost' = cost
             /\ history' = HistoryAtCall(cost)
    /\ entry_grid' = grid
    /\ max_iterations' = mi
    /\ max_stagnation' = ms
    /\ iterations' = 0
    /\ stagnation_counter' = 0
    /\ T' = 0
    /\ pc' = "loop"
    /\ last_call' = Call("solver", NoCoord, NoCoord)
    /\ ops' = 0
    /\ UNCHANGED <<initial_grid, fixed_cells, exception, coord1, coord2,
                   result, copyVars, groupVars>>

(* the loop condition without its cost test, and without its budget test *)
LoopGuard_NoCostTest(cost, iters, mi) == iters < mi

LoopGuard_NoBudget(cost, iters, mi) == cost > 0

(* line 116 *)
LoopGuard(cost, iters, mi) == cost > 0 /\ iters < mi

(* lines 116 and 152 *)
LoopTest ==
    /\ pc = "loop"
    /\ IF LoopGuard(current_cost, iterations, max_iterations)
       THEN pc' = "select" /\ UNCHANGED result
       ELSE pc' = "done" /\ result' = (current_cost = 0)
    /\ UNCHANGED <<boardVars, ops, last_call, exception, max_iterations,
                   max_stagnation, entry_grid, filled_grid, current_cost,
                   min_cost, iterations, stagnation_counter, T, coord1, coord2,
                   history, copyVars, groupVars>>

modifiable_coords == get_modifiable_coordinates(fixed_cells)

coord_costs(g, coords) == [c \in coords |-> coordinate_cost(g, c[1], c[2])]

row_coords(c1, coords) ==
    {c \in coords : c[1] = c1[1] /\ c[2] # c1[2]}

(* lines 119-91: the weights are computed and coord1 is drawn by           *)
(* random.choices, which raises IndexError on an empty population and      *)
(* ValueError when the weights sum to zero and never returns an element of *)
(* weight zero; coord2 is drawn from the row of coord1 when possible.      *)
SelectCoordinates ==
    /\ pc = "select"
    /\ LET weights == coord_costs(grid, modifiable_coords)
       IN  IF modifiable_coords = {}
           THEN pc' = "raised" /\ exception' = "IndexError"
                /\ UNCHANGED <<coord1, coord2>>
           ELSE IF SumFun(weights) = 0
           THEN pc' = "raised" /\ exception' = "ValueError"
                /\ UNCHANGED <<coord1, coord2>>
           ELSE \E c1 \in {c \in modifiable_coords : weights[c] > 0} :
                   /\ coord1' = c1
                   /\ exception' = exception
                   /\ IF row_coords(c1, modifiable_coords) # {}
                      THEN \E c2 \in row_coords(c1, modifiable_coords) :
                              coord2' = c2 /\ pc' = "body"
                      ELSE coord2' = NoCoord /\ pc' = "alg2"
    /\ UNCHANGED <<boardVars, ops, last_call, max_iterations, max_stagnation,
                   entry_grid, filled_grid, current_cost, min_cost, iterations,
                   stagnation_counter, T, result, history, copyVars, groupVars>>

(* lines 97-100: reached when coord1 is the only modifiable cell of its row *)
Algorithm2Accepts(g, c1, c2) ==
    get_value(g, c2[1], c2[2]) # get_value(g, c1[1], c1[2])

Algorithm2 ==
    /\ pc = "alg2"
    /\ \E c2 \in modifiable_coords :
          IF Algorithm2Accepts(grid, coord1, c2)
          THEN coord2' = c2 /\ pc' = "body"
          ELSE UNCHANGED <<coord2, pc>>
    /\ UNCHANGED <<boardVars, ops, last_call, exception, max_iterations,
                   max_stagnation, entry_grid, filled_grid, current_cost,
                   min_cost, iterations, stagnation_counter, T, coord1, result,
                   history, copyVars, groupVars>>

(* line 130: the outcomes the acceptance test can have.  A move that lowers *)
(* the cost is accepted; with delta_cost = 0 the bound exp(0) = 1 exceeds   *)
(* every draw of random.random(); otherwise both outcomes are possible.    *)
Acceptance(delta_cost) ==
    IF delta_cost <= 0 THEN {TRUE} ELSE {TRUE, FALSE}

(* the loop taking the new cost whether or not the move was accepted *)
CostAfter_AlwaysNew(accept, new_cost, cost) == new_cost

(* lines 131-134 *)
CostAfter(accept, new_cost, cost) == IF accept THEN new_cost ELSE cost

(* the loop without the reverting swap of line 134 *)
GridAfter_NoRevert(accept, swapped, f, c1, c2) == swapped

GridAfter(accept, swapped, f, c1, c2) ==
    IF accept THEN swapped ELSE swap_values(swapped, f, c1, c2)

(* the stagnation test of line 137 with <= in place of < *)
StagnationUpdate_AtMost(cost, mc, sc) ==
    IF cost <= mc THEN [min_cost |-> cost, stagnation_counter |-> 0]
    ELSE [min_cost |-> mc, stagnation_counter |-> sc + 1]

(* lines 137-141 *)
StagnationUpdate(cost, mc, sc) ==
    IF cost < mc THEN [min_cost |-> cost, stagnation_counter |-> 0]
    ELSE [min_cost |-> mc, stagnation_counter |-> sc + 1]

(* the loop with the decay of line 148 applied after a reheat as well *)
ReheatOrCool_CoolAfterReheat(cost, st, temp, ms) ==
    IF st.stagnation_counter >= ms
    THEN [reheat |-> TRUE, T |-> 1, min_cost |-> cost, stagnation_counter |-> 0]
    ELSE [reheat |-> FALSE, T |-> temp + 1, min_cost |-> st.min_cost,
          stagnation_counter |-> st.stagnation_counter]

(* lines 143-148; the field reheat tells which branch ran *)
ReheatOrCool(cost, st, temp, ms) ==
    IF st.stagnation_counter >= ms
    THEN [reheat |-> TRUE, T |-> 0, min_cost |-> cost, stagnation_counter |-> 0]
    ELSE [reheat |-> FALSE, T |-> temp + 1, min_cost |-> st.min_cost,
          stagnation_counter |-> st.stagnation_counter]

(* lines 125-150 *)
LoopBody ==
    /\ pc = "body"
    /\ LET swapped == swap_values(grid, fixed_cells, coord1, coord2)
       IN  \E new_cost \in {cost_function(swapped)} :
           \E accept \in Acceptance(new_cost - current_cost) :
              LET cost == CostAfter(accept, new_cost, current_cost)
                  st   == StagnationUpdate(cost, min_cost, stagnation_counter)
                  rc   == ReheatOrCool(cost, st, T, max_stagnation)
              IN  /\ grid' = GridAfter(accept, swapped, fixed_cells, coord1, coord2)
                  /\ current_cost' = cost
                  /\ min_cost' = rc.min_cost
                  /\ stagnation_counter' = rc.stagnation_counter
                  /\ T' = rc.T
                  /\ history' = HistoryAfter(history, accept, new_cost, cost,
                                             rc.reheat, iterations + 1)
    /\ iterations' = iterations + 1
    /\ pc' = "loop"
    /\ UNCHANGED <<initial_grid, fixed_cells, ops, last_call, exception,
                   max_iterations, max_stagnation, entry_grid, filled_grid,
                   coord1, coord2, result, copyVars, groupVars>>

----------------------------------------------------------------------------
(* Board.copy_board and calls on the Board it returns *)

(* Board([row[:] for row in self.grid]): a new grid, the mask recomputed   *)
(* by __init__ from the copied values.                                     *)
copy_board(g) ==
    [grid |-> [r \in 1 .. N |-> g[r]], fixed_cells |-> MaskOf(g)]

CopyBoard ==
    /\ pc = "idle"
    /\ ~copy_made
    /\ copy_made' = TRUE
    /\ copy_grid' = copy_board(grid).grid
    /\ copy_fixed' = copy_board(grid).fixed_cells
    /\ UNCHANGED <<boardVars, ops, last_call, solverVars, groupVars, copy_ops>>

CanCallCopy == copy_made /\ copy_ops < MaxCopyOps

CopySetValue(row, col, value) ==
    /\ CanCallCopy
    /\ copy_grid' = set_value(copy_grid, copy_fixed, row, col, value)
    /\ copy_ops' = copy_ops + 1
    /\ UNCHANGED <<boardVars, ops, last_call, solverVars, groupVars, copy_made, copy_fixed>>

CopyReset ==
    /\ CanCallCopy
    /\ copy_grid' = reset(copy_grid, copy_fixed)
    /\ copy_ops' = copy_ops + 1
    /\ UNCHANGED <<boardVars, ops, last_call, solverVars, groupVars, copy_made, copy_fixed>>

CopySwapValues(c1, c2) ==
    /\ CanCallCopy
    /\ copy_grid' = swap_values(copy_grid, copy_fixed, c1, c2)
    /\ copy_ops' = copy_ops + 1
    /\ UNCHANGED <<boardVars, ops, last_call, solverVars, groupVars, copy_made, copy_fixed>>

Next ==
    \/ \E c \in OpCoords, value \in OpValues : SetValue(c[1], c[2], value)
    \/ Reset
    \/ \E c1, c2 \in OpCoords : SwapValues(c1, c2)
    \/ InitialiseBoard
    \/ \E mi \in 0 .. MaxIterations, ms \in 1 .. MaxStagnation : SolverCall(mi, ms)
    \/ LoopTest
    \/ SelectCoordinates
    \/ Algorithm2
    \/ LoopBody

Spec == Init /\ [][Next]_vars

(* group_cost called on its own on a group of nine values *)
InitGroup ==
    /\ initial_grid = Solved
    /\ group_values \in Groups
    /\ InitRest

GroupCost ==
    /\ group_values # NoGroup
    /\ group_total = NoTotal
    /\ group_total' = group_cost(group_values)
    /\ UNCHANGED <<boardVars, ops, last_call, solverVars, copyVars, group_values>>

NextGroup == GroupCost

SpecGroup == InitGroup /\ [][NextGroup]_vars

(* The board, a copy of it, and calls on both *)
NextCopy ==
    \/ \E c \in OpCoords, value \in OpValues : SetValue(c[1], c[2], value)
    \/ Reset
    \/ \E c1, c2 \in OpCoords : SwapValues(c1, c2)
    \/ InitialiseBoard
    \/ CopyBoard
    \/ \E c \in OpCoords, value \in OpValues : CopySetValue(c[1], c[2], value)
    \/ CopyReset
    \/ \E c1, c2 \in OpCoords : CopySwapValues(c1, c2)

SpecCopy == Init /\ [][NextCopy]_vars

----------------------------------------------------------------------------
(* Properties *)

InSolver == pc \in {"loop", "select", "alg2", "body"}

(* the solver has returned and nothing was called on the board since *)
AtReturn == pc = "done" /\ last_call.name = "solver"

FullyFilled(g) == \A c \in Coords : get_value(g, c[1], c[2]) # 0

AlreadySolved(g) == is_valid(g) /\ FullyFilled(g)

RowsComplete(g) ==
    \A r \in 1 .. N :
        /\ \A d \in Digits : Count(get_rows(g)[r], d) = 1
        /\ group_cost(get_rows(g)[r]) = 0

(* C1: whatever has been called - set_value, reset, swap_values,           *)
(* initialise_board, the solver and its iterations - the fixed mask is the *)
(* one computed at construction and every fixed cell holds the value it    *)
(* had at construction.                                                    *)
C1_FixedCellsNeverMutated ==
    /\ fixed_cells = MaskOf(initial_grid)
    /\ \A c \in Coords :
          is_cell_fixed(fixed_cells, c[1], c[2])
          => get_value(grid, c[1], c[2]) = get_value(initial_grid, c[1], c[2])

(* a set_value or swap_values aimed at a fixed cell has just acted *)
C1_Witness ==
    /\ last_call.name \in {"set_value", "swap_values"}
    /\ is_cell_fixed(fixed_cells, last_call.c1[1], last_call.c1[2])
    /\ ops > 0

(* C2: the total cost of a board is 0 exactly when the board is valid and  *)
(* has no zero cell.                                                       *)
C2_CostZeroIffSolved ==
    (cost_function(grid) = 0) <=> (is_valid(grid) /\ FullyFilled(grid))

(* a valid board with a blank cell: no duplicate anywhere, yet a cost *)
C2_Witness ==
    /\ is_valid(grid)
    /\ ~FullyFilled(grid)
    /\ cost_function(grid) > 0
    /\ ops > 0

(* C3: inside the loop and at return current_cost is the cost of the board *)
(* as it stands; the solver returns TRUE exactly when that cost is 0, and  *)
(* FALSE only when the iteration budget is used up.                        *)
C3_CostTracked ==
    /\ (InSolver \/ AtReturn) => current_cost = cost_function(grid)
    /\ AtReturn => (result <=> cost_function(grid) = 0)
    /\ (AtReturn /\ ~result) => iterations = max_iterations

(* the solver returned FALSE with its budget used up, on a board that an   *)
(* accepted move has changed                                               *)
C3_Witness ==
    /\ AtReturn
    /\ ~result
    /\ iterations = MaxIterations
    /\ grid # filled_grid

(* C4 as claimed: after initialise_board every row holds each digit 1..9   *)
(* exactly once and has row cost 0, for every board.                       *)
C4_RowsCompleteAfterInitialise ==
    (last_call.name = "initialise_board"
        \/ (pc = "loop" /\ iterations = 0 /\ last_call.name = "solver"))
    => RowsComplete(grid)

(* C5 as claimed: swapping the same pair twice restores the grid, for      *)
(* every pair of coordinates, fixed or not.                                *)
C5_SwapTwiceRestores ==
    [][(last_call'.name = "swap_values" /\ ops' = ops + 1)
        => swap_values(grid', fixed_cells, last_call'.c1, last_call'.c2) = grid]_vars

(* C6 as claimed: the solver never raises; with an empty or all-zero       *)
(* weight vector it leaves the loop instead of sampling.                   *)
C6_SolverNeverRaises ==
    /\ pc # "raised"
    /\ exception = "none"

(* C7 as claimed: the loop body runs at most max_iterations times and      *)
(* every call of select_coordinates can return: while it is drawing, some  *)
(* draw ends the drawing.                                                  *)
C7_SelectCanReturn ==
    /\ iterations <= max_iterations
    /\ pc = "alg2" =>
          \E c2 \in modifiable_coords : Algorithm2Accepts(grid, coord1, c2)

(* C8: called on a complete valid grid the solver finds cost 0, never      *)
(* enters the loop body, changes no cell and returns TRUE with 0           *)
(* iterations.                                                             *)
C8_SolvedInputReturnsAtOnce ==
    (pc # "idle" /\ AlreadySolved(entry_grid) /\ last_call.name = "solver")
    => /\ pc \in {"loop", "done"}
       /\ current_cost = 0
       /\ iterations = 0
       /\ grid = entry_grid
       /\ pc = "done" => result

(* the solver returned on a complete valid grid with a positive budget *)
C8_Witness ==
    /\ AtReturn
    /\ AlreadySolved(entry_grid)
    /\ max_iterations > 0
    /\ result

(* C9 as claimed: with max_iterations = 0 the solver returns TRUE only if  *)
(* the puzzle passed in was already fully filled with cost 0.              *)
C9_ZeroBudgetTrueOnlyIfSolved ==
    (AtReturn /\ max_iterations = 0 /\ result) => AlreadySolved(entry_grid)

(* C9 amended: with max_iterations = 0 the solver never enters the loop    *)
(* body, leaves the board as initialise_board filled it, and returns TRUE  *)
(* exactly when that filled board has cost 0.                              *)
C9_ZeroBudgetReturnsFillCost ==
    (pc # "idle" /\ max_iterations = 0 /\ last_call.name = "solver")
    => /\ pc \in {"loop", "done"}
       /\ iterations = 0
       /\ grid = filled_grid
       /\ filled_grid \in initialise_board(entry_grid, fixed_cells)
       /\ pc = "done" => (result <=> cost_function(filled_grid) = 0)

(* with no budget the solver returned TRUE on a puzzle that came in with   *)
(* a blank cell and that the row fill completed without conflict           *)
C9_Witness ==
    /\ AtReturn
    /\ max_iterations = 0
    /\ result
    /\ ~FullyFilled(entry_grid)
    /\ cost_function(filled_grid) = 0

(* C10 as claimed: the copy has the same fixed mask as the original.       *)
C10_CopySameMask ==
    copy_made => copy_fixed = fixed_cells


(* C11: every pair select_coordinates hands to the loop body is row-local: *)
(* coord1 and coord2 are two distinct modifiable coordinates of one row.   *)
(* The second selection loop returns a coord2 of any row.                  *)
C11_PairIsRowLocal ==
    pc = "body" =>
        /\ coord1 \in modifiable_coords
        /\ coord2 \in modifiable_coords
        /\ coord1 # coord2
        /\ coord1[1] = coord2[1]


(* the board handed to the solver is the puzzle as constructed, and no row *)
(* of its clues repeats a digit                                            *)
CluesRowValid ==
    /\ entry_grid = initial_grid
    /\ \A r \in 1 .. N : is_valid_group(get_rows(initial_grid)[r])

(* C12: for a puzzle whose clues repeat no digit inside a row, every row   *)
(* holds each digit 1..9 exactly once (row cost 0) after initialise_board  *)
(* and after every solver iteration, accepted or rejected.  An accepted    *)
(* swap across two rows (see C11) breaks it.                               *)
C12_RowsStayComplete ==
    ((InSolver \/ AtReturn) /\ CluesRowValid) => RowsComplete(grid)


(* the grid g with the values at c1 and c2 exchanged, every other cell kept *)
Exchanged(g, c1, c2) ==
    [r \in 1 .. N |->
        [c \in 1 .. N |->
            IF <<r - 1, c - 1>> = c1 THEN get_value(g, c2[1], c2[2])
            ELSE IF <<r - 1, c - 1>> = c2 THEN get_value(g, c1[1], c1[2])
            ELSE g[r][c]]]

(* C13: an iteration that rejects its move leaves the grid cell for cell   *)
(* as it was and current_cost unchanged; an iteration that accepts leaves  *)
(* the grid differing from the one before only by the exchange of the      *)
(* values at coord1 and coord2, and current_cost equal to the cost of that *)
(* grid; a move that lowers the cost is always accepted.                   *)
C13_RejectedMoveHasNoEffect ==
    [][(pc = "body" /\ pc' = "loop") =>
          /\ history'.new_cost = cost_function(Exchanged(grid, coord1, coord2))
          /\ history'.accepted =>
                /\ grid' = Exchanged(grid, coord1, coord2)
                /\ current_cost' = history'.new_cost
          /\ ~history'.accepted =>
                /\ grid' = grid
                /\ current_cost' = current_cost
                /\ history'.new_cost >= current_cost
          /\ history'.new_cost < current_cost => history'.accepted]_vars

(* an iteration has rejected a worsening move *)
C13_Witness ==
    /\ pc = "loop"
    /\ iterations > 0
    /\ ~history.accepted
    /\ history.new_cost > current_cost


(* C14: in one iteration the loop either reheats or cools, never both.     *)
(* When the stagnation update leaves the counter at max_stagnation or      *)
(* above, T is T_initial again (no decay applied), min_cost is the current *)
(* cost and the counter is 0; otherwise T was multiplied by decay once and *)
(* min_cost and the counter are as the stagnation update left them.  So at *)
(* every loop head 0 <= stagnation_counter < max_stagnation, and T is      *)
(* T_initial * decay^k with k the number of iterations since the last      *)
(* reheat, or since the start when there was none.  T holds the exponent.  *)
C14_ReheatXorCool ==
    /\ [](pc = "loop" =>
             /\ 0 <= stagnation_counter
             /\ stagnation_counter < max_stagnation
             /\ T = iterations - history.last_reheat)
    /\ [][(pc = "body" /\ pc' = "loop") =>
             LET counter == IF current_cost' < min_cost
                            THEN 0 ELSE stagnation_counter + 1
             IN  IF counter >= max_stagnation
                 THEN /\ T' = 0
                      /\ min_cost' = current_cost'
                      /\ stagnation_counter' = 0
                      /\ history'.last_reheat = iterations'
                 ELSE /\ T' = T + 1
                      /\ min_cost' = Min(min_cost, current_cost')
                      /\ stagnation_counter' = counter
                      /\ history'.last_reheat = history.last_reheat]_vars

(* the loop has reheated and, in a later iteration, cooled *)
C14_Witness ==
    /\ pc = "loop"
    /\ history.last_reheat > 0
    /\ T > 0


(* C15 as claimed: at the end of every iteration min_cost is the lowest    *)
(* current_cost seen since the start of the solve, and stagnation_counter  *)
(* is the number of consecutive most recent iterations in which            *)
(* current_cost did not reach a new lowest-ever value.  A reheat sets      *)
(* min_cost to the current cost, which can be above the lowest seen, and   *)
(* zeroes the counter.                                                     *)
C15_MinCostIsLowestEver ==
    (InSolver \/ AtReturn) =>
        /\ min_cost = history.lowest_cost
        /\ stagnation_counter = history.lowest_stale

(* C15, amended: at the end of every iteration min_cost is the lowest      *)
(* current_cost seen since the last reheat, the cost at that reheat        *)
(* included, or since the start of the solve when there was no reheat;     *)
(* stagnation_counter is the number of consecutive most recent iterations, *)
(* counted from that reheat, in which current_cost did not go below that   *)
(* minimum.                                                                *)
C15_MinCostIsLowestSinceReheat ==
    (InSolver \/ AtReturn) =>
        /\ min_cost = history.epoch_low
        /\ stagnation_counter = history.epoch_stale

(* a reheat has left min_cost above the lowest cost seen *)
C15_Witness ==
    /\ pc = "loop"
    /\ history.last_reheat > 0
    /\ min_cost > history.lowest_cost


(* C16: for a group of nine values of 0..9, group_cost is the number of    *)
(* zeros plus, for each distinct nonzero value, its occurrences minus one, *)
(* which is 9 minus the number of distinct nonzero values: 0 when each of  *)
(* 1..9 occurs once, 9 for nine zeros, and at least 2 when one digit       *)
(* occurs twice, the other digits at most once and there is one zero.      *)
C16_GroupCostCountsDefects ==
    group_total # NoTotal =>
        LET zeros    == Len(SelectSeq(group_values, LAMBDA v : v = 0))
            nonzero  == Len(SelectSeq(group_values, LAMBDA v : v # 0))
            distinct == Cardinality(Range(group_values) \ {0})
        IN  /\ group_total = zeros + (nonzero - distinct)
            /\ group_total = N - distinct
            /\ (\A d \in Digits : Count(group_values, d) = 1) => group_total = 0
            /\ zeros = N => group_total = 9
            /\ (/\ zeros = 1
                /\ \E d \in Digits :
                      /\ Count(group_values, d) = 2
                      /\ \A e \in Digits \ {d} : Count(group_values, e) <= 1)
                  => group_total >= 2

(* group_cost has scored a group with one zero and one digit held twice *)
C16_Witness ==
    /\ group_total = 2
    /\ Count(group_values, 0) = 1
    /\ \E d \in Digits :
          /\ Count(group_values, d) = 2
          /\ \A e \in Digits \ {d} : Count(group_values, e) <= 1


(* how many modifiable cells of g hold each value *)
ModifiableValues(g) ==
    LET coords == modifiable_coords
    IN  [v \in 0 .. N |->
            Cardinality({c \in coords : get_value(g, c[1], c[2]) = v})]

(* C17: the loop only permutes values among the modifiable cells.  From    *)
(* initialise_board on, through every iteration and at return, the         *)
(* modifiable cells hold the same multiset of values as initialise_board   *)
(* left in them, and no cell of the board is 0.                            *)
C17_LoopPermutesModifiableValues ==
    (InSolver \/ AtReturn) =>
        /\ ModifiableValues(grid) = ModifiableValues(filled_grid)
        /\ FullyFilled(grid)

(* the solver has returned a board whose modifiable cells hold the values  *)
(* of initialise_board in other positions                                  *)
C17_Witness ==
    /\ AtReturn
    /\ iterations > 0
    /\ grid # filled_grid

====
